---------------------------- MODULE Spec2Model ----------------------------
(***************************************************************************)
(* Planeador-Aula-Rick-Bot (src/bot_webhook.py): the per-user session      *)
(* store, the intent classifier, the field extractor, the completion       *)
(* engine of process_message, the plan assembler with its standard lookup, *)
(* and the delivery of one webhook update by process_webhook_data.         *)
(* Under Spec the updates are handled one at a time, each in one step;     *)
(* under SpecThreads each update runs in the thread webhook() starts for   *)
(* it, and the threads interleave at the await of the classifier.          *)
(* boot is the process itself: the entry point it was started from, the    *)
(* credentials it found and whether it serves.                             *)
(*                                                                         *)
(* Python values are records tagged by type, so that None, an empty string *)
(* and a number stay distinct and truthiness is computed as Python does.   *)
(* Texts that the code lowers, strips or compares are sequences of         *)
(* one-character strings.                                                  *)
(***************************************************************************)
EXTENDS Naturals, Sequences, FiniteSets, TLC

VARIABLES model, user_sessions, last, threads, boot

vars == <<model, user_sessions, last, threads, boot>>

(***************************************************************************)
(* Bounds of the model.                                                    *)
(***************************************************************************)
\* A user's update is handled only while the user's conversation_history
\* holds fewer than MaxHistory entries (a saludo_nuevo turn empties it).
MaxHistory == 3

\* datetime.now().year, read when a session is created or reset.
CurrentYear == 2025

Users == {1}

(***************************************************************************)
(* Python / JSON values.                                                   *)
(***************************************************************************)
None == [t |-> "none"]
JStr(s) == [t |-> "str", s |-> s]
JInt(i) == [t |-> "int", i |-> i]
JBool(b) == [t |-> "bool", b |-> b]

\* bool(v): None, "" and 0 are falsy.
Truthy(v) ==
    CASE v.t = "none" -> FALSE
      [] v.t = "str" -> v.s # ""
      [] v.t = "int" -> v.i # 0
      [] v.t = "bool" -> v.b
      [] OTHER -> TRUE

\* all([...]) over a sequence of values.
all(vs) == \A i \in 1..Len(vs) : Truthy(vs[i])

(***************************************************************************)
(* Texts: str.lower(), str.strip(), membership in a word list.             *)
(***************************************************************************)
UpperChars ==
    <<"A", "C", "D", "E", "G", "H", "I", "L", "N", "O", "P", "R", "S", "U", "Y", "Í">>
LowerChars ==
    <<"a", "c", "d", "e", "g", "h", "i", "l", "n", "o", "p", "r", "s", "u", "y", "í">>
Whitespace == {" ", "\n", "\t"}

LowerChar(c) ==
    IF \E i \in 1..Len(UpperChars) : UpperChars[i] = c
    THEN LowerChars[CHOOSE i \in 1..Len(UpperChars) : UpperChars[i] = c]
    ELSE c

lower(s) == [i \in 1..Len(s) |-> LowerChar(s[i])]

RECURSIVE lstrip(_)
lstrip(s) == IF s # <<>> /\ Head(s) \in Whitespace THEN lstrip(Tail(s)) ELSE s

RECURSIVE rstrip(_)
rstrip(s) ==
    IF s # <<>> /\ s[Len(s)] \in Whitespace
    THEN rstrip(SubSeq(s, 1, Len(s) - 1))
    ELSE s

strip(s) == rstrip(lstrip(s))

\* The four labels of the classifier prompt (valid_intents).
saludo_nuevo == <<"s","a","l","u","d","o","_","n","u","e","v","o">>
planeador == <<"p","l","a","n","e","a","d","o","r">>
continuar_planeador ==
    <<"c","o","n","t","i","n","u","a","r","_","p","l","a","n","e","a","d","o","r">>
consulta_general ==
    <<"c","o","n","s","u","l","t","a","_","g","e","n","e","r","a","l">>
valid_intents == {saludo_nuevo, planeador, continuar_planeador, consulta_general}

\* The word lists of the continuar_planeador branch.
Afirmativos ==
    { <<"s","i">>, <<"s","í">>, <<"y","e","s">>, <<"o","k">>,
      <<"v","a","l","e">>, <<"c","l","a","r","o">> }
Negativos ==
    { <<"n","o">>, <<"n","o","p","e">>, <<"l","i","s","t","o">>, <<"y","a">>,
      <<"g","e","n","e","r","a","r">>, <<"c","r","e","a","r">> }

\* The affirmative test on the text as it was typed.
is_afirmativo_exacto(message) == message \in Afirmativos

is_afirmativo(message) == strip(lower(message)) \in Afirmativos

\* The negative test written as the else of the affirmative one.
is_negativo_resto(message) == ~is_afirmativo(message)

is_negativo(message) == strip(lower(message)) \in Negativos

(***************************************************************************)
(* Session store.                                                          *)
(***************************************************************************)
EmptyTema == [tema |-> None, periodo |-> None, fechas |-> None]

NewSession ==
    [ conversation_history |-> <<>>,
      data |-> [asignatura |-> None, temas |-> <<>>, grado |-> None,
                anio |-> CurrentYear],
      context |-> "inicio",
      current_tema |-> EmptyTema ]

\* self.user_sessions after get_user_session(user_id); the session returned
\* is the entry stored under user_id.
get_user_session(sessions, user_id) ==
    IF user_id \in DOMAIN sessions
    THEN sessions
    ELSE [u \in DOMAIN sessions \cup {user_id} |->
            IF u = user_id THEN NewSession ELSE sessions[u]]

\* A reset that keeps the history of the session it replaces.
reset_session_keep_history(sessions, user_id) ==
    [u \in DOMAIN sessions \cup {user_id} |->
        IF u # user_id THEN sessions[u]
        ELSE IF u \in DOMAIN sessions
             THEN [NewSession EXCEPT !.conversation_history =
                                        sessions[u].conversation_history]
             ELSE NewSession]

\* A reset that replaces the session of every user.
reset_session_todos(sessions, user_id) ==
    [u \in DOMAIN sessions \cup {user_id} |-> NewSession]

\* self.user_sessions after reset_session(user_id).
reset_session(sessions, user_id) ==
    [u \in DOMAIN sessions \cup {user_id} |->
        IF u = user_id THEN NewSession ELSE sessions[u]]


(***************************************************************************)
(* Language-model gateway.  A call of generate_content either raises or    *)
(* returns a text; what the text holds is the model's choice.              *)
(***************************************************************************)
Raise == [kind |-> "raise"]

\* A key that a JSON object does not hold (dict.get gives None, d[k] raises).
Missing == [t |-> "missing"]

\* dict.get(key) and dict.get(key, default) on a value of an object.
get(v) == IF v = Missing THEN None ELSE v
get_default(v, default) == IF v = Missing THEN default ELSE v

\* v[:50] raises TypeError unless v is a string (or another sequence).
Sliceable(v) == v.t \in {"str", "fstr"}

(***************************************************************************)
(* Intent classifier (classify_message_intent).                            *)
(***************************************************************************)
\* The classifier without the validation against valid_intents.
classify_message_intent_unvalidated(m, reply) ==
    IF m = "None" THEN planeador
    ELSE IF reply.kind = "raise" THEN planeador
    ELSE lower(strip(reply.text))

classify_message_intent(m, reply) ==
    IF m = "None" THEN planeador
    ELSE IF reply.kind = "raise" THEN planeador
    ELSE LET intent == lower(strip(reply.text))
         IN  IF intent \in valid_intents THEN intent ELSE planeador

(***************************************************************************)
(* General query (handle_general_query): the text of the answer.           *)
(***************************************************************************)
handle_general_query(m, reply) ==
    IF m = "None" THEN [kind |-> "especialidad"]
    ELSE IF reply.kind = "raise" THEN [kind |-> "especialidad_ayuda"]
    ELSE [kind |-> "respuesta_ia"]

(***************************************************************************)
(* Field extractor (extract_info_with_ai).  The reply is the text between  *)
(* an opening and a closing marker; body is what json.loads makes of the   *)
(* text that is left, or "malformed" when that text is not JSON.           *)
(***************************************************************************)
NoFields ==
    [asignatura |-> None, grado |-> None, tema |-> None, periodo |-> None,
     fechas |-> None]

\* {"error": ...}: an object that holds the key error and none of the five.
ErrorDict == [j |-> "dict", error |-> TRUE, f |-> NoFields]

\* The two marker checks leave JSON text: an opening marker is removed only
\* when it carries the json tag (7 characters), a closing one always.
\* open is "" (no marker), "fence_json" (three backquotes and json) or "fence"
\* (three backquotes alone), which startswith does not match.
fence_removed(reply) == reply.open \in {"", "fence_json"}

\* The extractor answering a failed parse with an empty object instead of
\* the error marker.
extract_info_with_ai_empty_on_failure(m, reply) ==
    IF m = "None" THEN ErrorDict
    ELSE IF reply.kind = "raise" THEN ErrorDict
    ELSE IF ~fence_removed(reply) \/ reply.body.j = "malformed"
         THEN [j |-> "dict", error |-> FALSE, f |-> NoFields]
    ELSE reply.body

extract_info_with_ai(m, reply) ==
    IF m = "None" THEN ErrorDict
    ELSE IF reply.kind = "raise" THEN ErrorDict
    ELSE IF ~fence_removed(reply) \/ reply.body.j = "malformed" THEN ErrorDict
    ELSE reply.body

(***************************************************************************)
(* Standard lookup (search_standards_with_ai).                             *)
(***************************************************************************)
\* The f-string of the last return: it names asignatura, tema and grado.
PlantillaEstandar(tema, asignatura, grado) ==
    [t |-> "fstr", asignatura |-> asignatura, tema |-> tema, grado |-> grado]

EstandarNoDisponible == JStr("Estandar no disponible (IA no funcional)")
EstandarPendiente ==
    JStr("Estandar pendiente de asignar segun curriculo institucional")
General == JStr("general")

\* Step 1: json.loads of the reply of the query that carries the MEN text.
\* The result is the parsed value, or "malformed" when the call or the
\* parse raised.
men_parsed(r1) ==
    IF r1.kind = "raise" THEN [j |-> "malformed"]
    ELSE IF ~fence_removed(r1) THEN [j |-> "malformed"]
    ELSE r1.body

\* Step 1 raises inside its try block (caught at line 370): the call or the
\* parse raises, the parsed value has no get, or, with flag and standard
\* truthy, the slice for the log line or result['tipo_pensamiento'] raises.
men_raises(r1) ==
    LET result == men_parsed(r1)
    IN  \/ result.j # "dict"
        \/ /\ Truthy(get(result.d.encontrado_en_men))
           /\ Truthy(get(result.d.estandar))
           /\ ~Sliceable(result.d.estandar) \/ result.d.tipo_pensamiento = Missing

\* Step 1 ends without returning and without raising: the test of line 363
\* is false.
men_missed(r1) ==
    LET result == men_parsed(r1)
    IN  /\ result.j = "dict"
        /\ ~(Truthy(get(result.d.encontrado_en_men))
             /\ Truthy(get(result.d.estandar)))

\* Step 1 accepting on the flag alone.
men_accepted_sin_estandar(r1) ==
    LET result == men_parsed(r1)
    IN  /\ result.j = "dict"
        /\ Truthy(get(result.d.encontrado_en_men))
        /\ Sliceable(get_default(result.d.estandar, JStr("")))
        /\ result.d.tipo_pensamiento # Missing

\* Step 1 returns: the flag and the standard are truthy, the standard can be
\* sliced for the log line, and result['tipo_pensamiento'] exists.
men_accepted(r1) ==
    LET result == men_parsed(r1)
    IN  /\ result.j = "dict"
        /\ Truthy(get(result.d.encontrado_en_men))
        /\ Truthy(get(result.d.estandar))
        /\ Sliceable(result.d.estandar)
        /\ result.d.tipo_pensamiento # Missing

\* Step 2: the text handed to json.loads.  With a json marker the text runs
\* from the marker to the next three backquotes; find gives -1 when there
\* are none, and the slice then drops the last character.  Otherwise, with
\* both braces in the text (wrap "prose": words around the object; "fence":
\* markers without the json tag), it runs from the first { to the last };
\* without braces the whole text is parsed.
web_parsed(r2) ==
    IF r2.kind = "raise" THEN [j |-> "malformed"]
    ELSE IF r2.wrap = "fence_json"
         THEN IF r2.closed THEN r2.body ELSE [j |-> "malformed"]
    ELSE IF r2.wrap \in {"prose", "fence"}
         THEN IF r2.body.j = "dict" THEN r2.body ELSE [j |-> "malformed"]
    ELSE r2.body

\* Step 2 returns: web_result is an object whose estandar, '' when the key
\* is absent, can be sliced for the log line.
web_accepted(r2) ==
    LET web_result == web_parsed(r2)
    IN  /\ web_result.j = "dict"
        /\ Sliceable(get_default(web_result.d.estandar, JStr("")))

\* Step 2 raises inside its try block (caught at line 410).
web_raises(r2) ==
    LET web_result == web_parsed(r2)
    IN  \/ web_result.j # "dict"
        \/ ~Sliceable(get_default(web_result.d.estandar, JStr("")))

\* The lookup answering a failed step 2 with the fixed text of line 406.
search_standards_with_ai_sin_plantilla(m, r1, r2, tema, asignatura, grado) ==
    IF m = "None"
    THEN [estandar |-> EstandarNoDisponible, tipo_pensamiento |-> General]
    ELSE IF men_accepted(r1)
    THEN LET result == men_parsed(r1).d
         IN  [estandar |-> result.estandar,
              tipo_pensamiento |->
                  IF Truthy(result.tipo_pensamiento)
                  THEN result.tipo_pensamiento ELSE General]
    ELSE IF web_accepted(r2)
    THEN LET web_result == web_parsed(r2).d
         IN  [estandar |-> get_default(web_result.estandar, EstandarPendiente),
              tipo_pensamiento |->
                  get_default(web_result.tipo_pensamiento, General)]
    ELSE [estandar |-> EstandarPendiente, tipo_pensamiento |-> General]

search_standards_with_ai(m, r1, r2, tema, asignatura, grado) ==
    IF m = "None"
    THEN [estandar |-> EstandarNoDisponible, tipo_pensamiento |-> General]
    ELSE IF men_accepted(r1)
    THEN LET result == men_parsed(r1).d
         IN  [estandar |-> result.estandar,
              tipo_pensamiento |->
                  IF Truthy(result.tipo_pensamiento)
                  THEN result.tipo_pensamiento ELSE General]
    ELSE IF web_accepted(r2)
    THEN LET web_result == web_parsed(r2).d
         IN  [estandar |-> get_default(web_result.estandar, EstandarPendiente),
              tipo_pensamiento |->
                  get_default(web_result.tipo_pensamiento, General)]
    ELSE [estandar |-> PlantillaEstandar(tema, asignatura, grado),
          tipo_pensamiento |-> General]

\* The lookup asking step 1 again before it goes on to step 2.
search_calls_reintenta(m, r1) ==
    IF m = "None" THEN <<>>
    ELSE IF men_accepted(r1) THEN <<"men">>
    ELSE <<"men", "men", "web">>

\* The gateway calls one lookup makes, in order.
search_calls(m, r1) ==
    IF m = "None" THEN <<>>
    ELSE IF men_accepted(r1) THEN <<"men">>
    ELSE <<"men", "web">>

(***************************************************************************)
(* Completeness predicates and missing-field lists.                        *)
(***************************************************************************)
\* Completeness that forgets the dates.
is_current_tema_complete_sin_fechas(current_tema) ==
    all(<<current_tema.tema, current_tema.periodo>>)

is_current_tema_complete(current_tema) ==
    all(<<current_tema.tema, current_tema.periodo, current_tema.fechas>>)

\* Readiness that does not look at the list of topics.
is_ready_to_generate_sin_temas(data) ==
    Truthy(data.asignatura) /\ Truthy(data.grado)

\* data.get('temas') is truthy when the list is not empty.
is_ready_to_generate(data) ==
    /\ Truthy(data.asignatura)
    /\ data.temas # <<>>
    /\ Truthy(data.grado)

\* The list that names only the fields that are None.
get_missing_info_for_tema_none(current_tema) ==
    (IF current_tema.tema = None THEN <<"tema">> ELSE <<>>)
    \o (IF current_tema.periodo = None THEN <<"periodo">> ELSE <<>>)
    \o (IF current_tema.fechas = None THEN <<"fechas">> ELSE <<>>)

get_missing_info_for_tema(current_tema) ==
    (IF ~Truthy(current_tema.tema) THEN <<"tema">> ELSE <<>>)
    \o (IF ~Truthy(current_tema.periodo) THEN <<"periodo">> ELSE <<>>)
    \o (IF ~Truthy(current_tema.fechas) THEN <<"fechas">> ELSE <<>>)

get_missing_info_general(data) ==
    (IF ~Truthy(data.asignatura) THEN <<"asignatura">> ELSE <<>>)
    \o (IF ~Truthy(data.grado) THEN <<"grado">> ELSE <<>>)

(***************************************************************************)
(* Plan assembler (generate_plan_data): one row per element of             *)
(* data['temas'], in list order; lookups[i] is the pair of gateway replies *)
(* that the i-th lookup receives.                                          *)
(***************************************************************************)
PlanRow(data, tema_info, lookup) ==
    LET estandar_info ==
            search_standards_with_ai(model, lookup.men, lookup.web,
                                     tema_info.tema, data.asignatura, data.grado)
    IN  [ Asignatura |-> data.asignatura,
          Grado |-> data.grado,
          Periodo |-> tema_info.periodo,
          Tema |-> tema_info.tema,
          Estandar |-> estandar_info.estandar,
          TipoPensamiento |-> estandar_info.tipo_pensamiento,
          Fechas |-> tema_info.fechas,
          EstrategiasPedagogicas |-> "estrategias_pedagogicas",
          Recursos |-> "recursos",
          Evaluacion |-> "evaluacion",
          Anio |-> data.anio ]

\* The rows in the reverse of the list order.
generate_plan_data_reversed(data, lookups) ==
    [i \in 1..Len(data.temas) |->
        PlanRow(data, data.temas[Len(data.temas) + 1 - i], lookups[i])]

generate_plan_data(data, lookups) ==
    [i \in 1..Len(data.temas) |-> PlanRow(data, data.temas[i], lookups[i])]

(***************************************************************************)
(* process_message, one operator per stretch of the method.  Each gives    *)
(* the outcome of the call: self.user_sessions afterwards, whether an      *)
(* exception left the method, and the dictionary returned.                 *)
(***************************************************************************)
\* result.get("files_to_send", []) reads an absent key as the empty list.
Result(response, files, completed) ==
    [telegram_response |-> response, files_to_send |-> files,
     completed |-> completed]

NoResult == [telegram_response |-> [kind |-> "none"], files_to_send |-> <<>>,
             completed |-> FALSE]

\* render tells what became of generate_excel and generate_pdf: "ninguno"
\* when the turn did not call them, "ok" when both returned, "falla" when
\* one of them raised.
\* fields holds the five values of the object the extractor returned, all
\* None when the turn wrote none of them.
\* calls lists the gateway calls made after the classification, in order,
\* each with the number of the topic it was made for (0: for none).
Outcome(sessions, branch, result) ==
    [sessions |-> sessions, raised |-> FALSE, branch |-> branch,
     result |-> result, plan |-> <<>>, render |-> "ninguno",
     fields |-> NoFields, calls |-> <<>>]

\* classify_message_intent, extract_info_with_ai and handle_general_query
\* return before the call when there is no gateway; otherwise each makes
\* the one call of its try block.
gateway_call(m, kind) ==
    IF m = "None" THEN <<>> ELSE <<[call |-> kind, tema |-> 0]>>

RECURSIVE plan_calls(_, _)
\* generate_plan_data, lines 484-504: the calls of the lookups, topic by
\* topic.
plan_calls(lookups, n) ==
    IF n = 0 THEN <<>>
    ELSE plan_calls(lookups, n - 1)
         \o [k \in 1..Len(search_calls(model, lookups[n].men)) |->
                [call |-> search_calls(model, lookups[n].men)[k], tema |-> n]]

\* Lines 704-710: the session is fetched or created and the message is
\* appended to its history (the timestamp of the entry is left out).
start_turn(sessions, user_id, message) ==
    LET created == get_user_session(sessions, user_id)
    IN  [created EXCEPT ![user_id].conversation_history =
            Append(@, [user |-> message])]

\* The greeting that answers without resetting.
saludo_branch_sin_reset(sessions, user_id) ==
    Outcome(sessions, "saludo", Result([kind |-> "bienvenida"], <<>>, FALSE))

\* Lines 717-737.
saludo_branch(sessions, user_id) ==
    Outcome(get_user_session(reset_session(sessions, user_id), user_id),
            "saludo", Result([kind |-> "bienvenida"], <<>>, FALSE))

\* The general query clearing the in-progress topics on its way.
consulta_branch_limpia_tema(sessions, reply) ==
    [Outcome([u \in DOMAIN sessions |->
                 [sessions[u] EXCEPT !.current_tema = EmptyTema]],
             "consulta",
             Result(handle_general_query(model, reply), <<>>, FALSE))
        EXCEPT !.calls = gateway_call(model, "query")]

\* Lines 739-745.
consulta_branch(sessions, reply) ==
    [Outcome(sessions, "consulta",
             Result(handle_general_query(model, reply), <<>>, FALSE))
        EXCEPT !.calls = gateway_call(model, "query")]

\* Lines 748-760.
afirmativo_branch(sessions, user_id) ==
    Outcome([sessions EXCEPT ![user_id].current_tema = EmptyTema],
            "afirmativo", Result([kind |-> "otro_tema"], <<>>, FALSE))

\* The finish turn leaving the conversation open when a generator raises.
generar_branch_falla_abierta(sessions, user_id, lookups, render_ok) ==
    LET data == sessions[user_id].data
        plan_data == generate_plan_data(data, lookups)
    IN  [sessions |-> sessions, raised |-> FALSE, branch |-> "generar",
         plan |-> plan_data,
         render |-> IF render_ok THEN "ok" ELSE "falla",
         fields |-> NoFields,
         calls |-> plan_calls(lookups, Len(data.temas)),
         result |->
            IF render_ok
            THEN Result([kind |-> "plan_generado", temas |-> data.temas],
                        <<"pdf", "xlsx">>, TRUE)
            ELSE Result([kind |-> "error_archivos"], <<>>, FALSE)]

\* The finish turn resetting the session once the files are written.
generar_branch_con_reset(sessions, user_id, lookups, render_ok) ==
    LET data == sessions[user_id].data
        plan_data == generate_plan_data(data, lookups)
    IN  [sessions |-> IF render_ok THEN reset_session(sessions, user_id)
                      ELSE sessions,
         raised |-> FALSE, branch |-> "generar",
         plan |-> plan_data,
         render |-> IF render_ok THEN "ok" ELSE "falla",
         fields |-> NoFields,
         calls |-> plan_calls(lookups, Len(data.temas)),
         result |->
            IF render_ok
            THEN Result([kind |-> "plan_generado", temas |-> data.temas],
                        <<"pdf", "xlsx">>, TRUE)
            ELSE Result([kind |-> "error_archivos"], <<>>, TRUE)]

\* Lines 764-798: the plan is assembled, then both files are written; an
\* exception of either generator gives the error answer.
generar_branch(sessions, user_id, lookups, render_ok) ==
    LET data == sessions[user_id].data
        plan_data == generate_plan_data(data, lookups)
    IN  [sessions |-> sessions, raised |-> FALSE, branch |-> "generar",
         plan |-> plan_data,
         render |-> IF render_ok THEN "ok" ELSE "falla",
         fields |-> NoFields,
         calls |-> plan_calls(lookups, Len(data.temas)),
         result |->
            IF render_ok
            THEN Result([kind |-> "plan_generado", temas |-> data.temas],
                        <<"pdf", "xlsx">>, TRUE)
            ELSE Result([kind |-> "error_archivos"], <<>>, TRUE)]

\* The answer to a finish on a plan that is not ready marked completed.
falta_info_branch_completado(sessions) ==
    Outcome(sessions, "falta_info", Result([kind |-> "falta_info"], <<>>, TRUE))

\* Lines 799-803.
falta_info_branch(sessions) ==
    Outcome(sessions, "falta_info", Result([kind |-> "falta_info"], <<>>, FALSE))

\* The update without the test "value is not None".
update_session_overwrite(session, f) ==
    [session EXCEPT
        !.data.asignatura = f.asignatura,
        !.data.grado = f.grado,
        !.current_tema.tema = f.tema,
        !.current_tema.periodo = f.periodo,
        !.current_tema.fechas = f.fechas]

\* The update that never writes the grade.
update_session_sin_grado(session, f) ==
    [session EXCEPT
        !.data.asignatura = IF f.asignatura # None THEN f.asignatura ELSE @,
        !.current_tema.tema = IF f.tema # None THEN f.tema ELSE @,
        !.current_tema.periodo = IF f.periodo # None THEN f.periodo ELSE @,
        !.current_tema.fechas = IF f.fechas # None THEN f.fechas ELSE @]

\* The update that writes a value only where the session holds none.
update_session_si_vacio(session, f) ==
    [session EXCEPT
        !.data.asignatura =
            IF f.asignatura # None /\ @ = None THEN f.asignatura ELSE @,
        !.data.grado = IF f.grado # None /\ @ = None THEN f.grado ELSE @,
        !.current_tema.tema = IF f.tema # None /\ @ = None THEN f.tema ELSE @,
        !.current_tema.periodo =
            IF f.periodo # None /\ @ = None THEN f.periodo ELSE @,
        !.current_tema.fechas =
            IF f.fechas # None /\ @ = None THEN f.fechas ELSE @]

\* Lines 814-820: every value that is not None is written, asignatura and
\* grado into data, tema, periodo and fechas into current_tema.
update_session(session, f) ==
    [session EXCEPT
        !.data.asignatura = IF f.asignatura # None THEN f.asignatura ELSE @,
        !.data.grado = IF f.grado # None THEN f.grado ELSE @,
        !.current_tema.tema = IF f.tema # None THEN f.tema ELSE @,
        !.current_tema.periodo = IF f.periodo # None THEN f.periodo ELSE @,
        !.current_tema.fechas = IF f.fechas # None THEN f.fechas ELSE @]

\* The completed topic put at the head of the list.
add_tema_al_inicio(session) ==
    [session EXCEPT !.data.temas = <<session.current_tema>> \o @,
                    !.current_tema = EmptyTema]

\* Lines 827-834: the copy of current_tema is appended, current_tema reset.
add_tema(session) ==
    [session EXCEPT !.data.temas = Append(@, session.current_tema),
                    !.current_tema = EmptyTema]

\* The recap naming the fields of the topic before the general ones.
recap_response_tema_primero(session) ==
    LET all_missing == get_missing_info_for_tema(session.current_tema)
                       \o get_missing_info_general(session.data)
    IN  [kind |-> "recap", falta |-> all_missing,
         cierre |-> IF all_missing # <<>> THEN "falta"
                    ELSE "informacion_completa"]

\* Lines 849-887: the answer that recaps and names what is missing, or
\* ends saying that the information is complete.
recap_response(session) ==
    LET all_missing == get_missing_info_general(session.data)
                       \o get_missing_info_for_tema(session.current_tema)
    IN  [kind |-> "recap", falta |-> all_missing,
         cierre |-> IF all_missing # <<>> THEN "falta"
                    ELSE "informacion_completa"]

\* Lines 805-887.  A value that is not an object raises at the test
\* "error" in extracted, at extracted['error'] or at extracted.items().
info_branch(sessions, user_id, reply) ==
    LET extracted == extract_info_with_ai(model, reply)
    IN  IF extracted.j # "dict"
        THEN [sessions |-> sessions, raised |-> TRUE, branch |-> "excepcion",
              result |-> NoResult, plan |-> <<>>, render |-> "ninguno",
              fields |-> NoFields, calls |-> gateway_call(model, "extract")]
        ELSE IF extracted.error
        THEN [Outcome(sessions, "error_extraccion",
                      Result([kind |-> "error_procesando"], <<>>, FALSE))
                 EXCEPT !.calls = gateway_call(model, "extract")]
        ELSE LET updated == update_session(sessions[user_id], extracted.f)
             IN  IF is_current_tema_complete(updated.current_tema)
                 THEN [Outcome([sessions EXCEPT ![user_id] = add_tema(updated)],
                               "tema_agregado",
                               Result([kind |-> "tema_agregado",
                                       tema |-> updated.current_tema],
                                      <<>>, FALSE))
                          EXCEPT !.fields = extracted.f,
                                 !.calls = gateway_call(model, "extract")]
                 ELSE [Outcome([sessions EXCEPT ![user_id] = updated],
                               "recap",
                               Result(recap_response(updated), <<>>, FALSE))
                          EXCEPT !.fields = extracted.f,
                                 !.calls = gateway_call(model, "extract")]

(***************************************************************************)
(* Inputs: the messages users send and what the gateway answers.           *)
(***************************************************************************)
Text(text) == [kind |-> "text", text |-> text]

MsgSi == <<" ", "S", "I">>
MsgNo == <<"N", "o", "\n">>
MsgStart == <<"/", "s", "t", "a", "r", "t">>
Hola == <<"H", "o", "l", "a">>
Mensajes == {MsgSi, MsgNo, MsgStart}

ClassifyReplies ==
    { Raise,
      Text(planeador),
      Text(<<"S","a","l","u","d","o","_","N","u","e","v","o","\n">>),
      Text(continuar_planeador),
      Text(consulta_general),
      Text(<<"n","o"," ","s","e">>) }

QueryReplies == {Raise, Text(<<"o","k">>)}

\* Extracted objects.  A key the object lacks is read like null: items()
\* does not yield it.
Fields(asignatura, grado, tema, periodo, fechas) ==
    [asignatura |-> asignatura, grado |-> grado, tema |-> tema,
     periodo |-> periodo, fechas |-> fechas]

Matematicas == JStr("Matematicas")
Grado8 == JStr("8-1")
Tema1 == JStr("productos notables")
Tema2 == JStr("fracciones")
Fechas1 == JStr("7 de mayo - 30 de junio")

ExtractFields ==
    { NoFields,
      Fields(Matematicas, None, None, None, None),
      Fields(JStr(""), None, None, None, None),
      Fields(None, Grado8, None, None, None),
      Fields(Matematicas, Grado8, None, None, None),
      Fields(None, None, Tema1, None, None),
      Fields(None, None, None, None, Fechas1),
      Fields(None, None, Tema2, JInt(7), None),
      Fields(None, None, Tema2, JInt(7), Fechas1),
      Fields(None, None, Tema1, JInt(0), Fechas1),
      Fields(Matematicas, Grado8, Tema1, JInt(3), Fechas1) }

Dict(f) == [j |-> "dict", error |-> FALSE, f |-> f]

ExtractBodies ==
    {Dict(f) : f \in ExtractFields}
    \cup { [j |-> "dict", error |-> TRUE, f |-> NoFields],
           [j |-> "malformed"], [j |-> "list"], [j |-> "null"] }

SampleFields == Fields(Matematicas, Grado8, Tema2, None, None)

ExtractReplies ==
    {Raise}
    \cup {[kind |-> "text", open |-> "", body |-> b] : b \in ExtractBodies}
    \cup {[kind |-> "text", open |-> o, body |-> Dict(SampleFields)] :
            o \in {"fence_json", "fence"}}

MenDict(estandar, tipo, encontrado) ==
    [kind |-> "text", open |-> "",
     body |-> [j |-> "dict",
               d |-> [estandar |-> estandar, tipo_pensamiento |-> tipo,
                      encontrado_en_men |-> encontrado]]]

MenFound == MenDict(JStr("Estandar MEN"), JStr("numerico"), JBool(TRUE))
MenNotFound == MenDict(None, None, JBool(FALSE))
MenFoundEmpty == MenDict(JStr(""), None, JBool(TRUE))
MenMalformed == [kind |-> "text", open |-> "", body |-> [j |-> "malformed"]]

WebDict(wrap, closed, estandar, tipo) ==
    [kind |-> "text", wrap |-> wrap, closed |-> closed,
     body |-> [j |-> "dict",
               d |-> [estandar |-> estandar, tipo_pensamiento |-> tipo]]]

WebOk == WebDict("plain", TRUE, JStr("Estandar web"), JStr("espacial"))
WebEmpty == WebDict("plain", TRUE, JStr(""), JStr("espacial"))
WebNull == WebDict("plain", TRUE, None, None)
WebNoKey == WebDict("prose", TRUE, Missing, Missing)

\* The replies of the two queries of one lookup.
LookupScenarios ==
    { [men |-> MenFound, web |-> Raise],
      [men |-> MenNotFound, web |-> WebOk],
      [men |-> MenNotFound, web |-> Raise],
      [men |-> Raise, web |-> WebEmpty],
      [men |-> MenFoundEmpty, web |-> WebNoKey],
      [men |-> MenMalformed, web |-> WebNull] }

(***************************************************************************)
(* process_webhook_data, text branch (lines 1004-1025): what is sent to    *)
(* the chat.  An exception of process_message is caught at line 1065 and   *)
(* nothing is sent; the files just written exist.                          *)
(***************************************************************************)
deliver(outcome) ==
    IF outcome.raised THEN <<>>
    ELSE <<[kind |-> "text", body |-> outcome.result.telegram_response]>>
         \o [i \in 1..Len(outcome.result.files_to_send) |->
                [kind |-> "document", path |-> outcome.result.files_to_send[i]]]

\* Line 1009: the command /start is handled as the text "Hola".
text_of(msg) == IF msg = MsgStart THEN Hola ELSE msg

\* What the last update handled did.
Observe(user_id, text, intent, was_ready, ext, outcome) ==
    [op |-> "text", user |-> user_id, text |-> text, intent |-> intent,
     was_ready |-> was_ready, ext |-> ext, branch |-> outcome.branch,
     raised |-> outcome.raised, result |-> outcome.result,
     plan |-> outcome.plan, render |-> outcome.render,
     fields |-> outcome.fields,
     calls |-> gateway_call(model, "classify") \o outcome.calls,
     sent |-> deliver(outcome)]

\* How the extraction of the turn went.
ext_kind(reply) ==
    IF model = "None" THEN "ia_no_disponible"
    ELSE IF reply.kind = "raise" THEN "excepcion"
    ELSE IF ~fence_removed(reply) \/ reply.body.j = "malformed" THEN "no_parseable"
    ELSE IF reply.body.j # "dict" THEN "no_dict"
    ELSE IF reply.body.error THEN "clave_error"
    ELSE IF reply.body.f = NoFields THEN "todo_null"
    ELSE "datos"

\* The intents the classifier can give under the replies above, with the
\* gateway configured and without it.
IntentsOf(m) == {classify_message_intent(m, cls) : cls \in ClassifyReplies}
IntentsGemini == IntentsOf("gemini-2.0-flash")
IntentsNone == IntentsOf("None")
Intents == IF model = "None" THEN IntentsNone ELSE IntentsGemini

\* The bound on the length of a history.
CanStart(u) ==
    u \in DOMAIN user_sessions =>
        Len(user_sessions[u].conversation_history) < MaxHistory

\* transcribe_audio_with_ai (lines 201-226): a fixed text without a
\* gateway, another when the call raises, else the stripped reply.
transcribe_audio_with_ai(m, reply) ==
    IF m = "None"
    THEN
        <<"E", "r", "r", "o", "r", ":", " ", "I", "A", " ", "n", "o",
          " ", "d", "i", "s", "p", "o", "n", "i", "b", "l", "e", " ",
          "p", "a", "r", "a", " ", "t", "r", "a", "n", "s", "c", "r",
          "i", "p", "c", "i", "ó", "n">>
    ELSE IF reply.kind = "raise"
    THEN
        <<"L", "o", " ", "s", "i", "e", "n", "t", "o", ",", " ", "n",
          "o", " ", "p", "u", "d", "e", " ", "t", "r", "a", "n", "s",
          "c", "r", "i", "b", "i", "r", " ", "e", "l", " ", "a", "u",
          "d", "i", "o", ".", " ", "P", "o", "r", " ", "f", "a", "v",
          "o", "r", ",", " ", "e", "n", "v", "í", "a", " ", "u", "n",
          " ", "m", "e", "n", "s", "a", "j", "e", " ", "d", "e", " ",
          "t", "e", "x", "t", "o", ".">>
    ELSE strip(reply.text)

\* What the gateway answers to a transcription.
TranscribeReplies ==
    { Raise,
      Text(<<" ", "\n">>),
      Text(<<" ", "N", "o", "\n">>),
      Text(<<"H", "o", "l", "a", " ">>),
      Text(<<"E", "r", "r", "o", "r", ":", " ", "r", "u", "i", "d", "o">>) }

\* The texts that reach process_message, typed or transcribed, and which of
\* them each word list of the continuar_planeador branch matches.
Textos ==
    {text_of(msg) : msg \in Mensajes}
    \cup {transcribe_audio_with_ai(m, reply) :
            m \in {"gemini-2.0-flash", "None"}, reply \in TranscribeReplies}
TextosAfirmativos == {t \in Textos : is_afirmativo(t)}
TextosNegativos == {t \in Textos : is_negativo(t)}

Finish(u, text, intent, ext, outcome) ==
    /\ user_sessions' = outcome.sessions
    /\ last' = Observe(u, text, intent,
                       is_ready_to_generate(
                           get_user_session(user_sessions, u)[u].data),
                       ext, outcome)
    /\ UNCHANGED <<model, threads, boot>>

(***************************************************************************)
(* One action per path of a text update through process_webhook_data and   *)
(* process_message.                                                        *)
(***************************************************************************)
TurnSaludo(u, msg) ==
    /\ CanStart(u)
    /\ \E intent \in Intents :
        LET text == text_of(msg)
            s0 == start_turn(user_sessions, u, text)
        IN  /\ intent = saludo_nuevo
            /\ Finish(u, text, intent, "ninguna", saludo_branch(s0, u))

TurnConsulta(u, msg) ==
    /\ CanStart(u)
    /\ \E intent \in Intents, reply \in QueryReplies :
        LET text == text_of(msg)
            s0 == start_turn(user_sessions, u, text)
        IN  /\ intent = consulta_general
            /\ Finish(u, text, intent, "ninguna", consulta_branch(s0, reply))

TurnAfirmativo(u, msg) ==
    /\ CanStart(u)
    /\ \E intent \in Intents :
        LET text == text_of(msg)
            s0 == start_turn(user_sessions, u, text)
        IN  /\ intent = continuar_planeador
            /\ text \in TextosAfirmativos
            /\ Finish(u, text, intent, "ninguna", afirmativo_branch(s0, u))

TurnGenerar(u, msg) ==
    /\ CanStart(u)
    /\ \E intent \in Intents :
        LET text == text_of(msg)
            s0 == start_turn(user_sessions, u, text)
        IN  /\ intent = continuar_planeador
            /\ text \notin TextosAfirmativos
            /\ text \in TextosNegativos
            /\ is_ready_to_generate(s0[u].data)
            /\ \E lookups \in [1..Len(s0[u].data.temas) -> LookupScenarios],
                  render_ok \in BOOLEAN :
                Finish(u, text, intent, "ninguna",
                       generar_branch(s0, u, lookups, render_ok))

TurnFaltaInfo(u, msg) ==
    /\ CanStart(u)
    /\ \E intent \in Intents :
        LET text == text_of(msg)
            s0 == start_turn(user_sessions, u, text)
        IN  /\ intent = continuar_planeador
            /\ text \notin TextosAfirmativos
            /\ text \in TextosNegativos
            /\ ~is_ready_to_generate(s0[u].data)
            /\ Finish(u, text, intent, "ninguna", falta_info_branch(s0))

\* intent planeador, or continuar_planeador with a text of neither word
\* list: the inner if/elif has no else, and control reaches line 805.
TurnInfo(u, msg) ==
    /\ CanStart(u)
    /\ \E intent \in Intents, reply \in ExtractReplies :
        LET text == text_of(msg)
            s0 == start_turn(user_sessions, u, text)
        IN  /\ \/ intent = planeador
               \/ intent = continuar_planeador
                  /\ text \notin TextosAfirmativos /\ text \notin TextosNegativos
            /\ Finish(u, text, intent, ext_kind(reply), info_branch(s0, u, reply))

\* A process of bot_webhook.py that found both credentials in its
\* environment and serves.
Serving ==
    [entry |-> "bot_webhook", env_token |-> TRUE, env_key |-> TRUE,
     telegram_token |-> "env", google_api_key |-> "env", pc |-> "serving"]

Init ==
    /\ model \in {"gemini-2.0-flash", "None"}
    /\ user_sessions = << >>
    /\ last = [op |-> "none"]
    /\ threads = << >>
    /\ boot = Serving

Next ==
    \E u \in Users, msg \in Mensajes :
        \/ TurnSaludo(u, msg)
        \/ TurnConsulta(u, msg)
        \/ TurnAfirmativo(u, msg)
        \/ TurnGenerar(u, msg)
        \/ TurnFaltaInfo(u, msg)
        \/ TurnInfo(u, msg)

Spec == Init /\ [][Next]_vars

(***************************************************************************)
(* The classifier on its own: every step hands one gateway reply to        *)
(* classify_message_intent and records what it returns.                    *)
(***************************************************************************)
ClassifyPads == {<<>>, <<" ">>, <<"\n">>}

ClassifyWords ==
    valid_intents
    \cup { <<"S","a","l","u","d","o","_","N","u","e","v","o">>,
           <<"P","L","A","N","E","A","D","O","R">>,
           <<"C","o","n","s","u","l","t","a","_","G","e","n","e","r","a","l">>,
           <<"n","o"," ","s","e">>,
           <<"p","l","a","n","e","a","d","o","r",".">>,
           <<>> }

ClassifyInputs ==
    {Raise}
    \cup {Text(pre \o w \o post) :
            pre \in ClassifyPads, w \in ClassifyWords, post \in ClassifyPads}

ClassifyCall(reply) ==
    /\ last' = [op |-> "classify", reply |-> reply,
                intent |-> classify_message_intent(model, reply)]
    /\ UNCHANGED <<model, user_sessions, threads, boot>>

NextClassify == \E reply \in ClassifyInputs : ClassifyCall(reply)

SpecClassify == Init /\ [][NextClassify]_vars

(***************************************************************************)
(* The webhook with its threads.  webhook() starts a thread for the update *)
(* and returns; the thread runs process_webhook_data in an event loop of   *)
(* its own.  A thread is observed where it awaits the gateway call of the  *)
(* classifier; the rest of process_message and the sending of the answer   *)
(* are one step.  Update i comes from user i.                              *)
(***************************************************************************)
Updates == {1, 2}

\* What process_message can do once the classifier has answered intent, on
\* the sessions s0 left by lines 704-710: the dispatch of lines 717-806 as
\* the set of pairs of the kind of extraction and the outcome.
Outcomes(u, text, intent, s0) ==
    IF intent = saludo_nuevo
    THEN {<<"ninguna", saludo_branch(s0, u)>>}
    ELSE IF intent = consulta_general
    THEN {<<"ninguna", consulta_branch(s0, reply)>> : reply \in QueryReplies}
    ELSE IF intent = continuar_planeador /\ text \in TextosAfirmativos
    THEN {<<"ninguna", afirmativo_branch(s0, u)>>}
    ELSE IF intent = continuar_planeador /\ text \in TextosNegativos
    THEN IF is_ready_to_generate(s0[u].data)
         THEN {<<"ninguna", generar_branch(s0, u, lookups, render_ok)>> :
                  lookups \in [1..Len(s0[u].data.temas) -> LookupScenarios],
                  render_ok \in BOOLEAN}
         ELSE {<<"ninguna", falta_info_branch(s0)>>}
    ELSE {<<ext_kind(reply), info_branch(s0, u, reply)>> :
             reply \in ExtractReplies}

\* The serial dispatch: a handler runs only once every update received
\* before its own has been handled.
runnable_en_serie(i) ==
    /\ i \in DOMAIN threads
    /\ threads[i].pc # "terminado"
    /\ \A j \in DOMAIN threads :
          threads[j].seq < threads[i].seq => threads[j].pc = "terminado"

\* Line 969: the thread started for update i runs whenever it has not
\* finished, whatever the other threads are doing.
runnable(i) ==
    /\ i \in DOMAIN threads
    /\ threads[i].pc # "terminado"

\* Lines 957-971: the update is handed to a new thread and the request is
\* answered {"status": "ok"}.
webhook(i, msg) ==
    /\ i \notin DOMAIN threads
    /\ threads' = [j \in DOMAIN threads \cup {i} |->
                      IF j = i
                      THEN [user |-> i, text |-> text_of(msg), pc |-> "nuevo",
                            seq |-> Cardinality(DOMAIN threads) + 1,
                            http |-> "ok", sent |-> <<>>]
                      ELSE threads[j]]
    /\ UNCHANGED <<model, user_sessions, last, boot>>

\* Lines 977-1013 and 704-713: the thread fetches or creates the session,
\* appends the message and awaits the classifier.
ThreadBegin(i) ==
    /\ runnable(i)
    /\ threads[i].pc = "nuevo"
    /\ user_sessions' = start_turn(user_sessions, threads[i].user,
                                   threads[i].text)
    /\ threads' = [threads EXCEPT ![i].pc = "clasificando"]
    /\ UNCHANGED <<model, last, boot>>

\* Lines 713-887 and 1016-1025: the classifier answers, the rest of
\* process_message runs and the answer is sent.
ThreadFinish(i) ==
    /\ runnable(i)
    /\ threads[i].pc = "clasificando"
    /\ \E intent \in Intents :
          \E o \in Outcomes(threads[i].user, threads[i].text, intent,
                            user_sessions) :
              /\ user_sessions' = o[2].sessions
              /\ threads' = [threads EXCEPT ![i].pc = "terminado",
                                            ![i].sent = deliver(o[2])]
    /\ UNCHANGED <<model, last, boot>>

ThreadStep(i) == ThreadBegin(i) \/ ThreadFinish(i)

NextThreads ==
    \E i \in Updates :
        \/ \E msg \in Mensajes : webhook(i, msg)
        \/ ThreadBegin(i)
        \/ ThreadFinish(i)

SpecThreads == Init /\ [][NextThreads]_vars

(***************************************************************************)
(* Voice updates (process_webhook_data, lines 1027-1063), one at a time:   *)
(* the notice, the download, the transcription and, when the transcription *)
(* is accepted, its echo and the call of process_message.                  *)
(***************************************************************************)
\* A user's voice update is handled only while the user's history holds
\* fewer than MaxVoice entries.
MaxVoice == 2

\* "Error:" in transcribed_text.
has_error_mark(text) ==
    LET mark == <<"E", "r", "r", "o", "r", ":">>
    IN  \E i \in 0..(Len(text) - Len(mark)) :
            SubSeq(text, i + 1, i + Len(mark)) = mark

Notice == [kind |-> "text", body |-> [kind |-> "transcribiendo"]]
Echo(transcribed_text) ==
    [kind |-> "text",
     body |-> [kind |-> "transcripcion", text |-> transcribed_text]]

\* The messages of an accepted transcription with the echo sent last.
voice_delivery_eco_al_final(transcribed_text, outcome) ==
    <<Notice>> \o deliver(outcome) \o <<Echo(transcribed_text)>>

\* Lines 1034, 1044 and 1047-1059: what is sent for an accepted
\* transcription.
voice_delivery(transcribed_text, outcome) ==
    <<Notice, Echo(transcribed_text)>> \o deliver(outcome)

\* audio_ok: whether process_telegram_audio returned any bytes.
\* last.transcription tells how the transcription went: "ninguna" (not
\* tried), "sin_ia" (no gateway), "excepcion" (the call raised) or "texto".
TurnVoz(u, audio_ok, reply) ==
    /\ u \in DOMAIN user_sessions =>
          Len(user_sessions[u].conversation_history) < MaxVoice
    /\ LET transcribed_text == transcribe_audio_with_ai(model, reply)
           calls == IF model = "None" THEN <<>>
                    ELSE <<[call |-> "transcribe", tema |-> 0]>>
           how == IF model = "None" THEN "sin_ia"
                  ELSE IF reply.kind = "raise" THEN "excepcion"
                  ELSE "texto"
           silent == [op |-> "voice", user |-> u, audio_ok |-> audio_ok,
                      transcription |-> "ninguna",
                      transcribed_text |-> <<>>, invocations |-> <<>>,
                      raised |-> FALSE, result |-> NoResult, calls |-> <<>>,
                      sent |-> <<Notice, [kind |-> "text",
                                          body |-> [kind |-> "error_audio"]]>>]
       IN  IF ~audio_ok
           THEN /\ last' = silent
                /\ UNCHANGED user_sessions
           ELSE IF transcribed_text = <<>> \/ has_error_mark(transcribed_text)
           THEN /\ last' = [silent EXCEPT
                               !.transcription = how,
                               !.transcribed_text = transcribed_text,
                               !.calls = calls,
                               !.sent = <<Notice,
                                          [kind |-> "text",
                                           body |-> [kind |-> "literal",
                                                     text |-> transcribed_text]]>>]
                /\ UNCHANGED user_sessions
           ELSE \E intent \in Intents :
                  \E o \in Outcomes(u, transcribed_text, intent,
                                    start_turn(user_sessions, u,
                                               transcribed_text)) :
                      /\ user_sessions' = o[2].sessions
                      /\ last' = [op |-> "voice", user |-> u,
                                  audio_ok |-> audio_ok,
                                  transcription |-> how,
                                  transcribed_text |-> transcribed_text,
                                  invocations |->
                                      <<[message |-> transcribed_text,
                                         user_id |-> u]>>,
                                  raised |-> o[2].raised,
                                  result |-> o[2].result,
                                  calls |-> calls
                                      \o gateway_call(model, "classify")
                                      \o o[2].calls,
                                  sent |-> voice_delivery(transcribed_text,
                                                          o[2])]
    /\ UNCHANGED <<model, threads, boot>>

NextVoice ==
    \E u \in Users, audio_ok \in BOOLEAN, reply \in TranscribeReplies :
        TurnVoz(u, audio_ok, reply)

SpecVoice == Init /\ [][NextVoice]_vars

(***************************************************************************)
(* Two updates of one user in flight at once.  Each runs in its own        *)
(* thread; a thread is observed before it starts, where it awaits the      *)
(* classifier and where it awaits the extractor, and what lies between two *)
(* of these points is one step (the awaits of the general query and of the *)
(* lookups are not split).  process_message keeps the dictionary that      *)
(* get_user_session returned at line 704 in its variable session:          *)
(* reset_session puts a new dictionary into user_sessions, and a thread    *)
(* that fetched the old one goes on writing to the old one (detached, its  *)
(* dictionary kept in the thread's record).                                *)
(***************************************************************************)
\* self.user_sessions as the thread of update i reaches it through its
\* variable session.
session_view(i) ==
    IF threads[i].detached
    THEN [u \in {threads[i].user} |-> threads[i].session]
    ELSE user_sessions

\* Lines 956-971 for an update of user 1.
RaceReceive(i, msg) ==
    /\ i \notin DOMAIN threads
    /\ threads' = [j \in DOMAIN threads \cup {i} |->
                      IF j = i
                      THEN [user |-> 1, text |-> text_of(msg), pc |-> "nuevo",
                            seq |-> Cardinality(DOMAIN threads) + 1,
                            http |-> "ok", sent |-> <<>>, intent |-> <<>>,
                            detached |-> FALSE, session |-> NewSession,
                            wrote |-> NoFields, tema_completo |-> EmptyTema]
                      ELSE threads[j]]
    /\ UNCHANGED <<model, user_sessions, last, boot>>

\* Lines 704-713.
RaceBegin(i) ==
    /\ i \in DOMAIN threads
    /\ threads[i].pc = "nuevo"
    /\ user_sessions' = start_turn(user_sessions, threads[i].user,
                                   threads[i].text)
    /\ threads' = [threads EXCEPT ![i].pc = "clasificando"]
    /\ last' = [op |-> "begin", update |-> i]
    /\ UNCHANGED <<model, boot>>

\* Lines 713-806: the classifier answers.  A greeting replaces the stored
\* session and answers; a turn that needs the extractor goes on to await
\* it; every other turn runs to its answer.
RaceClassified(i) ==
    /\ i \in DOMAIN threads
    /\ threads[i].pc = "clasificando"
    /\ \E intent \in Intents :
        LET u == threads[i].user
            text == threads[i].text
        IN  IF intent = saludo_nuevo
            THEN LET o == saludo_branch(user_sessions, u)
                 IN  /\ user_sessions' = o.sessions
                     /\ threads' =
                           [j \in DOMAIN threads |->
                              IF j = i
                              THEN [threads[j] EXCEPT !.pc = "terminado",
                                                      !.intent = intent,
                                                      !.sent = deliver(o)]
                              ELSE IF /\ threads[j].user = u
                                      /\ threads[j].pc \notin {"nuevo",
                                                                "terminado"}
                                      /\ ~threads[j].detached
                              THEN [threads[j] EXCEPT
                                       !.detached = TRUE,
                                       !.session = user_sessions[u]]
                              ELSE threads[j]]
            ELSE IF \/ intent = planeador
                    \/ /\ intent = continuar_planeador
                       /\ text \notin TextosAfirmativos
                       /\ text \notin TextosNegativos
            THEN /\ threads' = [threads EXCEPT ![i].pc = "extrayendo",
                                               ![i].intent = intent]
                 /\ UNCHANGED user_sessions
            ELSE \E o \in Outcomes(u, text, intent, session_view(i)) :
                    /\ threads' =
                          [threads EXCEPT
                              ![i].pc = "terminado",
                              ![i].intent = intent,
                              ![i].sent = deliver(o[2]),
                              ![i].session =
                                  IF threads[i].detached
                                  THEN o[2].sessions[u] ELSE @]
                    /\ user_sessions' =
                          IF threads[i].detached THEN user_sessions
                          ELSE o[2].sessions
    /\ last' = [op |-> "classified", update |-> i]
    /\ UNCHANGED <<model, boot>>

\* Lines 806-887: the extractor answers, the values are written and the
\* answer is sent.  last tells the last step a thread took, and for the
\* write of an extraction which values it gave.
RaceExtracted(i) ==
    /\ i \in DOMAIN threads
    /\ threads[i].pc = "extrayendo"
    /\ \E reply \in ExtractReplies :
        LET u == threads[i].user
            o == info_branch(session_view(i), u, reply)
        IN  /\ threads' =
                  [threads EXCEPT
                      ![i].pc = "terminado",
                      ![i].sent = deliver(o),
                      ![i].wrote = o.fields,
                      ![i].session =
                          IF threads[i].detached THEN o.sessions[u] ELSE @]
            /\ user_sessions' =
                  IF threads[i].detached THEN user_sessions ELSE o.sessions
            /\ last' = [op |-> "write", update |-> i, user |-> u,
                        fields |-> o.fields, branch |-> o.branch,
                        detached |-> threads[i].detached]
    /\ UNCHANGED <<model, boot>>

NextRace ==
    \E i \in Updates :
        \/ \E msg \in Mensajes : RaceReceive(i, msg)
        \/ RaceBegin(i)
        \/ RaceClassified(i)
        \/ RaceExtracted(i)

SpecRace == Init /\ [][NextRace]_vars

(***************************************************************************)
(* The same two handlers observed between statements.  webhook() runs each *)
(* update in a thread of its own (line 969) with an event loop of its own  *)
(* (lines 981-985), so a thread can be suspended between any two           *)
(* statements of process_message.  The commit of a topic reads             *)
(* session['current_tema'] twice, at line 826 for the test and at line 827 *)
(* for the copy; the steps below are the extraction with its writes, the   *)
(* test, the copy, and the append with the answer.                         *)
(***************************************************************************)
\* Lines 806-820: the extractor answers and the values are written.
StmtWrite(i) ==
    /\ i \in DOMAIN threads
    /\ threads[i].pc = "extrayendo"
    /\ \E reply \in ExtractReplies :
        LET u == threads[i].user
            extracted == extract_info_with_ai(model, reply)
            failed == IF extracted.j # "dict" THEN TRUE ELSE extracted.error
            updated == update_session(session_view(i)[u], extracted.f)
        IN  IF failed
            THEN /\ threads' =
                       [threads EXCEPT
                           ![i].pc = "terminado",
                           ![i].sent =
                               deliver(info_branch(session_view(i), u, reply))]
                 /\ UNCHANGED user_sessions
            ELSE /\ threads' =
                       [threads EXCEPT
                           ![i].pc = "verificando",
                           ![i].wrote = extracted.f,
                           ![i].session =
                               IF threads[i].detached THEN updated ELSE @]
                 /\ user_sessions' =
                       IF threads[i].detached THEN user_sessions
                       ELSE [user_sessions EXCEPT ![u] = updated]
    /\ last' = [op |-> "statement", update |-> i, line |-> 820]
    /\ UNCHANGED <<model, boot>>

\* Line 826, and lines 848-887 when the test fails.
StmtCheck(i) ==
    /\ i \in DOMAIN threads
    /\ threads[i].pc = "verificando"
    /\ LET session == session_view(i)[threads[i].user]
       IN  IF is_current_tema_complete(session.current_tema)
           THEN threads' = [threads EXCEPT ![i].pc = "copiando"]
           ELSE threads' =
                  [threads EXCEPT
                      ![i].pc = "terminado",
                      ![i].sent =
                          <<[kind |-> "text",
                             body |-> recap_response(session)]>>]
    /\ last' = [op |-> "statement", update |-> i, line |-> 826]
    /\ UNCHANGED <<model, user_sessions, boot>>

\* Line 827: tema_completo = session['current_tema'].copy()
StmtCopy(i) ==
    /\ i \in DOMAIN threads
    /\ threads[i].pc = "copiando"
    /\ threads' =
          [threads EXCEPT
              ![i].pc = "agregando",
              ![i].tema_completo =
                  session_view(i)[threads[i].user].current_tema]
    /\ last' = [op |-> "statement", update |-> i, line |-> 827]
    /\ UNCHANGED <<model, user_sessions, boot>>

\* Lines 828-846: the copy is appended, current_tema replaced, the answer
\* made of the copy.
StmtAppend(i) ==
    /\ i \in DOMAIN threads
    /\ threads[i].pc = "agregando"
    /\ LET u == threads[i].user
           tema_completo == threads[i].tema_completo
           updated == [session_view(i)[u] EXCEPT
                          !.data.temas = Append(@, tema_completo),
                          !.current_tema = EmptyTema]
       IN  /\ threads' =
                 [threads EXCEPT
                     ![i].pc = "terminado",
                     ![i].sent = <<[kind |-> "text",
                                    body |-> [kind |-> "tema_agregado",
                                              tema |-> tema_completo]]>>,
                     ![i].session =
                         IF threads[i].detached THEN updated ELSE @]
           /\ user_sessions' =
                 IF threads[i].detached THEN user_sessions
                 ELSE [user_sessions EXCEPT ![u] = updated]
    /\ last' = [op |-> "statement", update |-> i, line |-> 828]
    /\ UNCHANGED <<model, boot>>

NextStatements ==
    \E i \in Updates :
        \/ \E msg \in Mensajes : RaceReceive(i, msg)
        \/ RaceBegin(i)
        \/ RaceClassified(i)
        \/ StmtWrite(i)
        \/ StmtCheck(i)
        \/ StmtCopy(i)
        \/ StmtAppend(i)

SpecStatements == Init /\ [][NextStatements]_vars

(***************************************************************************)
(* Start of the process.  Each of the two entry points reads the token of  *)
(* the messaging platform and the key of the gateway from the environment  *)
(* (env_token, env_key: whether the variable is set and not empty) and     *)
(* goes on to serve or exits.  telegram_token and google_api_key tell      *)
(* where the value in use came from: "env", "fallback" (the literal of     *)
(* lines 38 and 42 of bot_webhook.py) or "none".                           *)
(***************************************************************************)
EntryPoints == {"bot_webhook", "bot_render_webservice"}

\* bot_webhook.py, lines 31-44: a value the environment lacks is replaced by
\* the literal written in the file.
credential(in_env) == IF in_env THEN "env" ELSE "fallback"

\* bot_webhook.py, lines 31-44, 80-93 and 1084-1100: the test of line 1086
\* reads the token after the fallback; the gateway is configured when the
\* key is truthy and the library was imported, and configuring may raise.
startup_webhook ==
    /\ boot.entry = "bot_webhook"
    /\ boot.pc = "import"
    /\ LET telegram_token == credential(boot.env_token)
           google_api_key == credential(boot.env_key)
       IN  /\ boot' = [boot EXCEPT
                          !.telegram_token = telegram_token,
                          !.google_api_key = google_api_key,
                          !.pc = IF telegram_token = "none"
                                 THEN "exited" ELSE "serving"]
           /\ model' \in IF google_api_key = "none"
                          THEN {"None"}
                          ELSE {"gemini-2.0-flash", "None"}
    /\ UNCHANGED <<user_sessions, last, threads>>

\* bot_render_webservice.py, lines 46-57: exit(1) when either value is
\* absent, before the application and its routes are created.
startup_render ==
    /\ boot.entry = "bot_render_webservice"
    /\ boot.pc = "import"
    /\ boot' = [boot EXCEPT
                   !.telegram_token = IF boot.env_token THEN "env" ELSE "none",
                   !.google_api_key = IF boot.env_key THEN "env" ELSE "none",
                   !.pc = IF boot.env_token /\ boot.env_key
                          THEN "serving" ELSE "exited"]
    /\ UNCHANGED <<model, user_sessions, last, threads>>

\* bot_render_webservice.py, lines 153-162: the update is processed inside
\* the request; the answer is ok, or the error when processing raised.
render_webhook(i, msg) ==
    /\ boot.entry = "bot_render_webservice"
    /\ boot.pc = "serving"
    /\ i \notin DOMAIN threads
    /\ \E http \in {"ok", "error"} :
          threads' = [j \in DOMAIN threads \cup {i} |->
                         IF j = i
                         THEN [user |-> i, text |-> msg, pc |-> "terminado",
                               seq |-> Cardinality(DOMAIN threads) + 1,
                               http |-> http, sent |-> <<>>]
                         ELSE threads[j]]
    /\ UNCHANGED <<model, user_sessions, last, boot>>

\* A serving process of bot_webhook.py handles one update.
serve_webhook ==
    /\ boot.entry = "bot_webhook"
    /\ boot.pc = "serving"
    /\ \/ \E msg \in Mensajes : webhook(1, msg)
       \/ ThreadBegin(1)
       \/ ThreadFinish(1)

InitStartup ==
    /\ model = "None"
    /\ user_sessions = << >>
    /\ last = [op |-> "none"]
    /\ threads = << >>
    /\ boot \in [entry : EntryPoints, env_token : BOOLEAN, env_key : BOOLEAN,
                  telegram_token : {"none"}, google_api_key : {"none"},
                  pc : {"import"}]

NextStartup ==
    \/ startup_webhook
    \/ startup_render
    \/ serve_webhook
    \/ \E i \in Updates, msg \in Mensajes : render_webhook(i, msg)

SpecStartup == InitStartup /\ [][NextStartup]_vars

(***************************************************************************)
(* The standard lookup on its own: every step hands the replies of the two *)
(* gateway queries to search_standards_with_ai and records the queries     *)
(* made and the dictionary returned.                                       *)
(***************************************************************************)
MenReplies ==
    { Raise, MenFound, MenNotFound, MenFoundEmpty, MenMalformed,
      MenDict(JStr("Estandar MEN"), None, JBool(TRUE)),
      MenDict(JStr("Estandar MEN"), Missing, JBool(TRUE)),
      MenDict(JInt(5), JStr("numerico"), JBool(TRUE)),
      MenDict(JStr("Estandar MEN"), JStr("numerico"), Missing),
      [MenFound EXCEPT !.open = "fence_json"],
      [MenFound EXCEPT !.open = "fence"],
      [kind |-> "text", open |-> "", body |-> [j |-> "list"]] }

WebReplies ==
    { Raise, WebOk, WebEmpty, WebNull, WebNoKey,
      WebDict("fence_json", TRUE, JStr("Estandar web"), JStr("espacial")),
      WebDict("fence_json", FALSE, JStr("Estandar web"), JStr("espacial")),
      WebDict("fence", TRUE, JStr("Estandar web"), Missing),
      WebDict("plain", TRUE, JInt(5), JStr("espacial")),
      [kind |-> "text", wrap |-> "plain", closed |-> TRUE,
       body |-> [j |-> "malformed"]],
      [kind |-> "text", wrap |-> "plain", closed |-> TRUE,
       body |-> [j |-> "list"]] }

LookupCall(r1, r2, tema, asignatura, grado) ==
    /\ last' = [op |-> "lookup", men |-> r1, web |-> r2, tema |-> tema,
                asignatura |-> asignatura, grado |-> grado,
                calls |-> search_calls(model, r1),
                result |-> search_standards_with_ai(model, r1, r2, tema,
                                                    asignatura, grado)]
    /\ UNCHANGED <<model, user_sessions, threads, boot>>

NextLookup ==
    \E r1 \in MenReplies, r2 \in WebReplies, tema \in {Tema1, Tema2} :
        LookupCall(r1, r2, tema, Matematicas, Grado8)

SpecLookup == Init /\ [][NextLookup]_vars

(***************************************************************************)
(* The paths of the files on their own.  generate_excel and generate_pdf   *)
(* each read the clock and name their file after the user and the time     *)
(* formatted down to the second.  An instant is a second and the           *)
(* milliseconds within it; every step is one finish turn that writes both  *)
(* files, and last.writes lists the files written so far.                  *)
(***************************************************************************)
\* The finish turns taken while last.writes is recorded.
MaxRenders == 2

Instants == [sec : {0, 1}, ms : {0, 500}]

\* datetime.now().strftime('%Y%m%d_%H%M%S'): the instant without its
\* milliseconds.
strftime(now) == now.sec

\* Lines 510 and 542: the f-string of the file name.
generate_excel(user_id, now) ==
    <<"/tmp/output/plan_aula_", user_id, "_", strftime(now), ".xlsx">>
generate_pdf(user_id, now) ==
    <<"/tmp/output/plan_aula_", user_id, "_", strftime(now), ".pdf">>

\* Lines 767-768: the spreadsheet is written, then the report; the clock
\* does not run backwards between the two.
RenderCall(user_id, now_excel, now_pdf) ==
    /\ now_pdf.sec >= now_excel.sec
    /\ now_pdf.sec = now_excel.sec => now_pdf.ms >= now_excel.ms
    /\ LET writes == IF last.op = "render" THEN last.writes ELSE <<>>
       IN  /\ Len(writes) < 2 * MaxRenders
           /\ last' = [op |-> "render",
                       writes |-> writes \o
                           <<[user |-> user_id, now |-> now_excel, type |-> "xlsx",
                              path |-> generate_excel(user_id, now_excel)],
                             [user |-> user_id, now |-> now_pdf, type |-> "pdf",
                              path |-> generate_pdf(user_id, now_pdf)]>>]
    /\ UNCHANGED <<model, user_sessions, threads, boot>>

NextRender ==
    \E user_id \in Updates, now_excel \in Instants, now_pdf \in Instants :
        RenderCall(user_id, now_excel, now_pdf)

SpecRender == Init /\ [][NextRender]_vars

(***************************************************************************)
(* Properties.                                                             *)
(***************************************************************************)
\* C1: handling a text message ends with exactly one text sent to the user,
\* first, followed only by files, whatever the classifier and the extractor
\* returned.
C1_OneTextResponse ==
    last.op = "text" =>
        /\ Len(last.sent) >= 1
        /\ last.sent[1].kind = "text"
        /\ \A i \in 2..Len(last.sent) : last.sent[i].kind = "document"

\* What the validation of the classifier compares: the reply without
\* surrounding whitespace, in lower case.
Normalized(reply) == lower(strip(reply.text))

\* C2: classify_message_intent returns one of the four labels; without a
\* gateway, when the call raises, and when the reply (whitespace and case
\* aside) is none of the four labels, it returns planeador; a reply that is
\* a label is returned as that label.
C2_ClassifierDefaults ==
    last.op = "classify" =>
        /\ last.intent \in valid_intents
        /\ (model = "None" \/ last.reply.kind = "raise") => last.intent = planeador
        /\ (model # "None" /\ last.reply.kind = "text") =>
              last.intent =
                  IF Normalized(last.reply) \in valid_intents
                  THEN Normalized(last.reply) ELSE planeador

C2_Witness ==
    /\ last.op = "classify"
    /\ model # "None"
    /\ last.reply.kind = "text"
    /\ Normalized(last.reply) \notin valid_intents
    /\ last.intent = planeador

\* The collected fields of a user's session, a user without a session
\* counting as one with the session get_user_session creates.
Collected(sessions, u) ==
    LET session == get_user_session(sessions, u)[u]
    IN  [data |-> session.data, current_tema |-> session.current_tema]

History(sessions, u) == get_user_session(sessions, u)[u].conversation_history

ErrorText == <<[kind |-> "text", body |-> [kind |-> "error_procesando"]]>>

\* C3: when the extractor's output cannot be parsed, subject, grade,
\* accumulated topics and in-progress topic are after the turn what they
\* were before it, and exactly the error message is sent.
C3_ParseFailureKeepsSession ==
    [][ (last'.op = "text" /\ last'.ext = "no_parseable") =>
            /\ Collected(user_sessions', last'.user)
                   = Collected(user_sessions, last'.user)
            /\ ~last'.raised
            /\ last'.sent = ErrorText ]_vars

C3_Witness ==
    /\ last.op = "text"
    /\ last.ext = "no_parseable"
    /\ last.sent = ErrorText
    /\ user_sessions[last.user].data.temas # <<>>
    /\ user_sessions[last.user].current_tema # EmptyTema

NonNullTopic(t) == t.tema # None /\ t.periodo # None /\ t.fechas # None

\* C4: every element of the accumulated topics has topic, period and date
\* range non-null, and right after a topic was moved into them the
\* in-progress topic is all-null and the moved topic is the last element.
C4_MovedTopicsComplete ==
    /\ \A u \in DOMAIN user_sessions :
          \A i \in 1..Len(user_sessions[u].data.temas) :
              NonNullTopic(user_sessions[u].data.temas[i])
    /\ (last.op = "text" /\ last.branch = "tema_agregado") =>
          LET session == user_sessions[last.user]
              n == Len(session.data.temas)
          IN  /\ session.current_tema = EmptyTema
              /\ n >= 1
              /\ session.data.temas[n] = last.result.telegram_response.tema
              /\ NonNullTopic(session.data.temas[n])

C4_Witness ==
    /\ last.op = "text"
    /\ last.branch = "tema_agregado"
    /\ Len(user_sessions[last.user].data.temas) = 2
    /\ user_sessions[last.user].current_tema = EmptyTema

\* C5: without a saludo_nuevo reset, a session that was ready to generate
\* before a turn is ready to generate after it.
C5_ReadinessMonotonic ==
    (last.op = "text" /\ last.was_ready /\ last.intent # saludo_nuevo) =>
        is_ready_to_generate(user_sessions[last.user].data)

\* C6 as stated: a turn whose extraction result has all five fields null
\* leaves the session store as it was.
C6_EmptyExtractionNoMutation ==
    [][ (last'.op = "text" /\ last'.ext = "todo_null") =>
            user_sessions' = user_sessions ]_vars

\* C6 amended: such a turn leaves subject, grade, accumulated topics and
\* in-progress topic as they were; the session gains the message as the
\* last entry of its history and nothing else.
C6_EmptyExtractionKeepsFields ==
    [][ (last'.op = "text" /\ last'.ext = "todo_null") =>
            /\ Collected(user_sessions', last'.user)
                   = Collected(user_sessions, last'.user)
            /\ History(user_sessions', last'.user)
                   = Append(History(user_sessions, last'.user),
                            [user |-> last'.text])
            /\ user_sessions'[last'.user].context = "inicio" ]_vars

C6_Witness ==
    /\ last.op = "text"
    /\ last.ext = "todo_null"
    /\ Len(user_sessions[last.user].conversation_history) >= 2
    /\ user_sessions[last.user].data.asignatura # None
    /\ user_sessions[last.user].current_tema # EmptyTema

\* C7: from every state, reset_session(userId) leaves that user's session
\* with subject and grade null, no accumulated topics, an all-null
\* in-progress topic and an empty history.
C7_ResetEmptiesSession ==
    \A u \in Users :
        LET session == reset_session(user_sessions, u)[u]
        IN  /\ session.data.asignatura = None
            /\ session.data.grado = None
            /\ session.data.temas = <<>>
            /\ session.current_tema = EmptyTema
            /\ session.conversation_history = <<>>

C7_Witness ==
    \E u \in DOMAIN user_sessions :
        /\ user_sessions[u].conversation_history # <<>>
        /\ user_sessions[u].data.asignatura # None
        /\ user_sessions[u].data.temas # <<>>
        /\ user_sessions[u].current_tema # EmptyTema

\* C8: after a message classified saludo_nuevo the stored session equals a
\* freshly created one, and the answer is the onboarding message alone,
\* with completed false and no files.
C8_GreetingResets ==
    (last.op = "text" /\ last.intent = saludo_nuevo) =>
        /\ user_sessions[last.user] = NewSession
        /\ last.result = Result([kind |-> "bienvenida"], <<>>, FALSE)
        /\ last.sent = <<[kind |-> "text", body |-> [kind |-> "bienvenida"]]>>

C8_Witness ==
    /\ last.op = "text"
    /\ last.intent = saludo_nuevo
    /\ last.was_ready
    /\ user_sessions[last.user] = NewSession

IsReady(sessions, u) ==
    u \in DOMAIN sessions /\ is_ready_to_generate(sessions[u].data)

\* One row per completed topic of the session, in the order of the list.
RowsFollowTopics(plan, temas) ==
    /\ Len(plan) = Len(temas)
    /\ \A i \in 1..Len(temas) :
          /\ plan[i].Tema = temas[i].tema
          /\ plan[i].Periodo = temas[i].periodo
          /\ plan[i].Fechas = temas[i].fechas

FinishTurn ==
    /\ last.op = "text"
    /\ last.intent = continuar_planeador
    /\ last.text \in TextosNegativos

\* C9 as stated: a finish turn on a ready session gives one row per
\* completed topic, in order, two files and completed true.
C9_FinishGivesTwoFiles ==
    (FinishTurn /\ last.was_ready) =>
        /\ RowsFollowTopics(last.plan, user_sessions[last.user].data.temas)
        /\ last.result.completed
        /\ last.result.files_to_send = <<"pdf", "xlsx">>

\* C9 amended: such a turn gives one row per topic completed before it, in
\* order, and completed true; it carries the report and the spreadsheet,
\* unless writing a file raised, and then the error answer and no file.
C9_FinishRendersPlan ==
    [][ (FinishTurn' /\ IsReady(user_sessions, last'.user)) =>
            /\ RowsFollowTopics(last'.plan,
                                user_sessions[last'.user].data.temas)
            /\ last'.result.completed
            /\ \/ /\ last'.result.telegram_response.kind = "plan_generado"
                  /\ last'.result.files_to_send = <<"pdf", "xlsx">>
               \/ /\ last'.result.telegram_response.kind = "error_archivos"
                  /\ last'.result.files_to_send = <<>> ]_vars

C9_Witness ==
    /\ FinishTurn
    /\ last.was_ready
    /\ Len(last.plan) = 2
    /\ last.plan[1].Tema # last.plan[2].Tema
    /\ last.result.files_to_send = <<"pdf", "xlsx">>

NonEmptyString(v) == (v.t = "str" /\ v.s # "") \/ v.t = "fstr"

\* C10: every row the plan assembler produces has a non-empty standard
\* string.
C10_StandardNonEmpty ==
    (last.op = "text" /\ last.branch = "generar") =>
        \A i \in 1..Len(last.plan) : NonEmptyString(last.plan[i].Estandar)

\* The plan of a user is not ready: the subject or the grade is absent
\* (null or empty), or no topic has been completed.
PlanNotReady(sessions, u) ==
    LET data == get_user_session(sessions, u)[u].data
    IN  \/ data.asignatura \in {None, JStr("")}
        \/ data.grado \in {None, JStr("")}
        \/ data.temas = <<>>

FaltaInfoText == <<[kind |-> "text", body |-> [kind |-> "falta_info"]]>>

\* C11: a continuar_planeador turn with a negative text on a plan that is
\* not ready assembles no plan, writes no file, sends only the message that
\* information is missing, has completed false, and leaves subject, grade,
\* accumulated topics and in-progress topic as they were.
C11_NotReadyFinish ==
    [][ (FinishTurn' /\ PlanNotReady(user_sessions, last'.user)) =>
            /\ last'.plan = <<>>
            /\ last'.render = "ninguno"
            /\ last'.result.files_to_send = <<>>
            /\ last'.sent = FaltaInfoText
            /\ ~last'.result.completed
            /\ Collected(user_sessions', last'.user)
                   = Collected(user_sessions, last'.user) ]_vars

C11_Witness ==
    /\ FinishTurn
    /\ ~last.was_ready
    /\ last.sent = FaltaInfoText
    /\ user_sessions[last.user].data.asignatura = Matematicas
    /\ user_sessions[last.user].data.grado = Grado8
    /\ user_sessions[last.user].data.temas = <<>>
    /\ user_sessions[last.user].current_tema # EmptyTema

\* The object of the step-1 reply of the last lookup, when it has one.
MenObject == men_parsed(last.men)

\* C12: the lookup queries step 1 first and each step at most once; when
\* it stops after step 1 the found-flag of that reply is true and its
\* standard a non-empty string, which is the standard returned; step 2 is
\* queried exactly when step 1 missed or failed; the template is returned
\* only after step 2 failed as well.
C12_TiersInOrder ==
    (last.op = "lookup" /\ model # "None") =>
        /\ last.calls \in {<<"men">>, <<"men", "web">>}
        /\ last.calls = <<"men">> =>
              /\ MenObject.j = "dict"
              /\ MenObject.d.encontrado_en_men = JBool(TRUE)
              /\ NonEmptyString(MenObject.d.estandar)
              /\ last.result.estandar = MenObject.d.estandar
        /\ last.calls = <<"men", "web">> <=>
              (men_missed(last.men) \/ men_raises(last.men))
        /\ last.result.estandar.t = "fstr" =>
              /\ last.calls = <<"men", "web">>
              /\ web_raises(last.web)

C12_Witness ==
    /\ last.op = "lookup"
    /\ model # "None"
    /\ last.men = MenFoundEmpty
    /\ last.web = WebOk
    /\ last.calls = <<"men", "web">>
    /\ last.result.estandar = JStr("Estandar web")

\* C13: the lookup returns a dictionary with a standard and a type of
\* thinking for every pair of gateway outcomes, and when step 1 answers
\* not found and step 2 throws, the standard is the template naming the
\* subject, the topic and the grade of the call.
C13_LookupAlwaysReturns ==
    last.op = "lookup" =>
        /\ DOMAIN last.result = {"estandar", "tipo_pensamiento"}
        /\ last.result.estandar # Missing
        /\ last.result.tipo_pensamiento # Missing
        /\ (model # "None" /\ last.men = MenNotFound /\ last.web = Raise) =>
              /\ last.result.estandar.t = "fstr"
              /\ last.result.estandar.asignatura = last.asignatura
              /\ last.result.estandar.tema = last.tema
              /\ last.result.estandar.grado = last.grado

C13_Witness ==
    /\ last.op = "lookup"
    /\ model # "None"
    /\ last.men = MenNotFound
    /\ last.web = Raise
    /\ last.tema = Tema2
    /\ last.result.estandar = PlantillaEstandar(Tema2, Matematicas, Grado8)

ErrorArchivosText == <<[kind |-> "text", body |-> [kind |-> "error_archivos"]]>>

\* C14: when writing a file raises during a finish turn, the user is sent
\* the error message and nothing else, the result has no files and completed
\* true, and subject, grade, accumulated topics and in-progress topic are
\* what they were before the turn.
C14_RenderFailure ==
    [][ (last'.op = "text" /\ last'.render = "falla") =>
            /\ last'.sent = ErrorArchivosText
            /\ last'.result.files_to_send = <<>>
            /\ last'.result.completed
            /\ Collected(user_sessions', last'.user)
                   = Collected(user_sessions, last'.user) ]_vars

C14_Witness ==
    /\ FinishTurn
    /\ last.render = "falla"
    /\ last.sent = ErrorArchivosText
    /\ Len(user_sessions[last.user].data.temas) = 2
    /\ user_sessions[last.user].current_tema = EmptyTema

\* The in-progress topic holds some field and lacks another.
PartlyFilled(current_tema) ==
    /\ current_tema # EmptyTema
    /\ ~is_current_tema_complete(current_tema)

\* C15: a finish turn that writes the files leaves subject, grade,
\* accumulated topics and in-progress topic as they were, and its rows are
\* those of the accumulated topics alone; a finish turn on a ready plan
\* assembles the plan also when the in-progress topic is partly filled.
C15_FinishKeepsSession ==
    [][ /\ (last'.op = "text" /\ last'.render = "ok") =>
              /\ Collected(user_sessions', last'.user)
                     = Collected(user_sessions, last'.user)
              /\ RowsFollowTopics(last'.plan,
                                  user_sessions[last'.user].data.temas)
        /\ (FinishTurn' /\ IsReady(user_sessions, last'.user)
              /\ PartlyFilled(user_sessions[last'.user].current_tema)) =>
              /\ last'.render # "ninguno"
              /\ Len(last'.plan) = Len(user_sessions[last'.user].data.temas)
       ]_vars

C15_Witness ==
    /\ FinishTurn
    /\ last.render = "ok"
    /\ PartlyFilled(user_sessions[last.user].current_tema)
    /\ Len(last.plan) = 1
    /\ Len(user_sessions[last.user].data.temas) = 1

\* The turn sent one text, of one of the answers of handle_general_query,
\* and its result has completed false and no files.
OneQueryAnswer(obs) ==
    /\ Len(obs.sent) = 1
    /\ obs.sent[1].kind = "text"
    /\ obs.sent[1].body.kind
           \in {"respuesta_ia", "especialidad_ayuda", "especialidad"}
    /\ ~obs.result.completed
    /\ obs.result.files_to_send = <<>>

\* C16 as stated: a turn classified consulta_general leaves the session
\* store identical and returns one text answer with completed false.
C16_QueryNoStateChange ==
    [][ (last'.op = "text" /\ last'.intent = consulta_general) =>
            /\ user_sessions' = user_sessions
            /\ OneQueryAnswer(last') ]_vars

\* C16 amended: such a turn leaves subject, grade, accumulated topics and
\* in-progress topic as they were, the session gaining only the message as
\* the last entry of its history, and returns one text answer with completed
\* false, also when the gateway call raises.
C16_QueryKeepsFields ==
    [][ (last'.op = "text" /\ last'.intent = consulta_general) =>
            /\ Collected(user_sessions', last'.user)
                   = Collected(user_sessions, last'.user)
            /\ History(user_sessions', last'.user)
                   = Append(History(user_sessions, last'.user),
                            [user |-> last'.text])
            /\ user_sessions'[last'.user].context = "inicio"
            /\ last'.ext = "ninguna"
            /\ OneQueryAnswer(last') ]_vars

C16_Witness ==
    /\ last.op = "text"
    /\ last.intent = consulta_general
    /\ last.sent = <<[kind |-> "text", body |-> [kind |-> "especialidad_ayuda"]]>>
    /\ user_sessions[last.user].data.temas # <<>>
    /\ user_sessions[last.user].current_tema # EmptyTema
    /\ Len(user_sessions[last.user].conversation_history) = 3

\* A continuar_planeador turn whose text is " SI": the affirmative si, in
\* upper case, after a blank.
AffirmativeTurn ==
    /\ last.op = "text"
    /\ last.intent = continuar_planeador
    /\ last.text = MsgSi

OtroTemaText == <<[kind |-> "text", body |-> [kind |-> "otro_tema"]]>>

\* C17 as stated: such a turn sets the in-progress topic to all-null and
\* changes nothing else of the session.
C17_AffirmativeOnlyClears ==
    [][ AffirmativeTurn' =>
            user_sessions'[last'.user] =
                [get_user_session(user_sessions, last'.user)[last'.user]
                    EXCEPT !.current_tema = EmptyTema] ]_vars

\* C17 amended: such a turn sets the in-progress topic to all-null, leaves
\* subject, grade and accumulated topics as they were, appends the message
\* to the history, runs no extraction and answers with completed false.
C17_AffirmativeClearsTopic ==
    [][ AffirmativeTurn' =>
            /\ user_sessions'[last'.user].current_tema = EmptyTema
            /\ user_sessions'[last'.user].data
                   = Collected(user_sessions, last'.user).data
            /\ History(user_sessions', last'.user)
                   = Append(History(user_sessions, last'.user),
                            [user |-> last'.text])
            /\ user_sessions'[last'.user].context = "inicio"
            /\ last'.ext = "ninguna"
            /\ last'.sent = OtroTemaText
            /\ ~last'.result.completed ]_vars

C17_Witness ==
    /\ AffirmativeTurn
    /\ last.sent = OtroTemaText
    /\ user_sessions[last.user].current_tema = EmptyTema
    /\ user_sessions[last.user].data.asignatura = Matematicas
    /\ user_sessions[last.user].data.temas # <<>>

\* The value of a field after an extraction gave new for it.
Written(new, old) == IF new # None THEN new ELSE old

\* The in-progress topic after the writes of an extraction f, before the
\* completeness check.
TopicAfter(f, current_tema) ==
    [tema |-> Written(f.tema, current_tema.tema),
     periodo |-> Written(f.periodo, current_tema.periodo),
     fechas |-> Written(f.fechas, current_tema.fechas)]

FieldOrder == <<"asignatura", "grado", "tema", "periodo", "fechas">>

MissingFields(session) ==
    LET value == [asignatura |-> session.data.asignatura,
                  grado |-> session.data.grado,
                  tema |-> session.current_tema.tema,
                  periodo |-> session.current_tema.periodo,
                  fechas |-> session.current_tema.fechas]
        Absent(name) == value[name] \in {None, JStr(""), JInt(0)}
    IN  SelectSeq(FieldOrder, Absent)

\* C19: when a turn with a successful extraction does not complete the
\* in-progress topic, the answer names exactly the fields the session lacks
\* after the update, subject and grade before topic, period and dates.
C19_RecapListsMissing ==
    (last.op = "text" /\ last.ext \in {"datos", "todo_null"}
        /\ last.branch # "tema_agregado") =>
        /\ last.result.telegram_response.kind = "recap"
        /\ last.result.telegram_response.falta
               = MissingFields(user_sessions[last.user])
        /\ last.sent = <<[kind |-> "text", body |-> last.result.telegram_response]>>

C19_Witness ==
    /\ last.op = "text"
    /\ last.ext = "datos"
    /\ last.result.telegram_response.kind = "recap"
    /\ last.result.telegram_response.falta = <<"grado", "periodo", "fechas">>
    /\ user_sessions[last.user].data.asignatura = Matematicas
    /\ user_sessions[last.user].current_tema.tema = Tema1

\* C20: every update received has been answered ok by the webhook, whether
\* or not its handler has finished, and a handler that has not finished can
\* take its next step whatever the handlers of other updates are doing.
C20_OwnExecutionContext ==
    \A i \in DOMAIN threads :
        /\ threads[i].http = "ok"
        /\ threads[i].pc # "terminado" => ENABLED ThreadStep(i)

\* The message of user 2 arrived after that of user 1 and has been answered
\* while the handler of user 1 still awaits the classifier.
C20_Witness ==
    /\ DOMAIN threads = {1, 2}
    /\ threads[1].seq < threads[2].seq
    /\ threads[1].pc = "clasificando"
    /\ threads[1].sent = <<>>
    /\ threads[2].pc = "terminado"
    /\ Len(threads[2].sent) = 1
    /\ threads[2].sent[1].kind = "text"

\* C21: a process started without the token or without the key, from either
\* entry point, never serves: it handles no update.
C21_MissingCredentialFatal ==
    (~boot.env_token \/ ~boot.env_key) =>
        /\ boot.pc # "serving"
        /\ threads = << >>

\* A period as the extractor is to store it: an integer from 1 to 4.
PeriodInRange(v) == v.t = "int" /\ v.i \in 1..4

\* C22: every period stored in a session, in the in-progress topic or in a
\* completed topic, is an integer from 1 to 4, whatever the gateway returned.
C22_PeriodNormalized ==
    \A u \in DOMAIN user_sessions :
        /\ user_sessions[u].current_tema.periodo # None =>
              PeriodInRange(user_sessions[u].current_tema.periodo)
        /\ \A i \in 1..Len(user_sessions[u].data.temas) :
              PeriodInRange(user_sessions[u].data.temas[i].periodo)

\* C23: any two files of the same type written by finish turns, of one user
\* or of two, have different paths.
C23_DistinctPaths ==
    last.op = "render" =>
        \A i, j \in 1..Len(last.writes) :
            (i # j /\ last.writes[i].type = last.writes[j].type) =>
                last.writes[i].path # last.writes[j].path

\* The calls of one kind among the gateway calls of a turn, and those of
\* them made for one topic.
CallsOf(calls, kinds) ==
    {k \in 1..Len(calls) : calls[k].call \in kinds}
CallsFor(calls, kind, n) ==
    {k \in 1..Len(calls) : calls[k].call = kind /\ calls[k].tema = n}

\* C24: handling one message makes at most one classification call, at most
\* one extraction or general-query call, and for each topic at most one
\* call of step 1 and one of step 2 of the lookup; an extraction call that
\* raises is followed by no other call and by the one error message, and
\* every topic gets its row whether or not its lookups failed.
C24_NoRetries ==
    last.op = "text" =>
        /\ Cardinality(CallsOf(last.calls, {"classify"})) <= 1
        /\ Cardinality(CallsOf(last.calls, {"extract", "query"})) <= 1
        /\ \A n \in 1..Len(last.plan) :
              /\ Cardinality(CallsFor(last.calls, "men", n)) <= 1
              /\ Cardinality(CallsFor(last.calls, "web", n)) <= 1
        /\ \A k \in 1..Len(last.calls) :
              last.calls[k].call \in {"men", "web"} =>
                  last.calls[k].tema \in 1..Len(last.plan)
        /\ last.ext = "excepcion" =>
              /\ last.calls = <<[call |-> "classify", tema |-> 0],
                                [call |-> "extract", tema |-> 0]>>
              /\ last.sent = ErrorText
        /\ last.branch = "generar" =>
              Len(last.plan) = Len(user_sessions[last.user].data.temas)

\* A finish turn over two topics: the first lookup failed at step 1 and at
\* step 2, and each step was called once for each topic.
C24_Witness ==
    /\ last.op = "text"
    /\ last.branch = "generar"
    /\ Len(last.plan) = 2
    /\ last.plan[1].Estandar.t = "fstr"
    /\ Cardinality(CallsFor(last.calls, "men", 1)) = 1
    /\ Cardinality(CallsFor(last.calls, "web", 1)) = 1
    /\ Cardinality(CallsFor(last.calls, "men", 2)) = 1
    /\ Len(last.calls) >= 4

\* C25: a voice message makes at most one call of process_message, with the
\* sender's user id and the text the transcription returned, after the
\* transcription call; what is then sent is the notice, the echo of the
\* transcription, the response of process_message and its files, in that
\* order.
C25_VoiceAfterTranscription ==
    last.op = "voice" =>
        /\ Len(last.invocations) <= 1
        /\ last.invocations # <<>> =>
              /\ last.invocations[1].user_id = last.user
              /\ last.invocations[1].message = last.transcribed_text
              /\ last.transcribed_text
                     \in {transcribe_audio_with_ai(model, reply) :
                              reply \in TranscribeReplies}
              /\ last.calls # <<>> /\ last.calls[1].call = "transcribe"
              /\ Cardinality(CallsOf(last.calls, {"transcribe"})) = 1
              /\ Len(last.sent) >= 2
              /\ last.sent[1].body.kind = "transcribiendo"
              /\ last.sent[2].body
                     = [kind |-> "transcripcion", text |-> last.transcribed_text]
              /\ ~last.raised =>
                    /\ Len(last.sent) = 3 + Len(last.result.files_to_send)
                    /\ last.sent[3]
                           = [kind |-> "text",
                              body |-> last.result.telegram_response]
                    /\ \A k \in 4..Len(last.sent) :
                          /\ last.sent[k].kind = "document"
                          /\ last.sent[k].path = last.result.files_to_send[k - 3]
              /\ last.raised => Len(last.sent) = 2

\* A transcribed "No" on a ready plan: notice, echo, the plan message and
\* the two files.
C25_Witness ==
    /\ last.op = "voice"
    /\ last.transcribed_text = <<"N", "o">>
    /\ last.invocations = <<[message |-> <<"N", "o">>, user_id |-> 1]>>
    /\ Len(last.sent) = 5
    /\ last.sent[3].body.kind = "plan_generado"
    /\ last.sent[5].kind = "document"

\* C26: with two messages of one user in flight, the write of an extraction
\* always ends up in the session, whichever message came first: every value
\* it gave is the value the session holds afterwards (a completed topic
\* holding those of the topic).  So the extraction of the earlier message,
\* when it arrives last, replaces what the later message wrote.
C26_LastWriteWins ==
    (last.op = "write" /\ ~last.detached) =>
        LET session == user_sessions[last.user]
            f == last.fields
            topic == IF last.branch = "tema_agregado"
                     THEN session.data.temas[Len(session.data.temas)]
                     ELSE session.current_tema
        IN  /\ f.asignatura # None => session.data.asignatura = f.asignatura
            /\ f.grado # None => session.data.grado = f.grado
            /\ f.tema # None => topic.tema = f.tema
            /\ f.periodo # None => topic.periodo = f.periodo
            /\ f.fechas # None => topic.fechas = f.fechas

\* The later message wrote the topic fracciones; the extraction of the
\* earlier message then wrote productos notables over it, and that is the
\* topic the session holds.
C26_Witness ==
    /\ DOMAIN threads = {1, 2}
    /\ threads[1].user = threads[2].user
    /\ threads[1].seq < threads[2].seq
    /\ threads[2].pc = "terminado"
    /\ threads[2].wrote.tema = Tema2
    /\ ~threads[2].detached
    /\ last.op = "write"
    /\ last.update = 1
    /\ ~last.detached
    /\ last.fields.tema = Tema1
    /\ last.branch = "recap"
    /\ user_sessions[1].current_tema.tema = Tema1
    /\ user_sessions[1].data.temas = <<>>

UnmatchedTurn ==
    /\ last.op = "text"
    /\ last.intent = continuar_planeador
    /\ last.text = Hola

C28_InProgressHasNull ==
    \A u \in DOMAIN user_sessions :
        \/ user_sessions[u].current_tema.tema = None
        \/ user_sessions[u].current_tema.periodo = None
        \/ user_sessions[u].current_tema.fechas = None

\* The list post is the list pre, or pre with one element after its end.
AppendedAtMostOne(pre, post) ==
    \/ post = pre
    \/ /\ Len(post) = Len(pre) + 1
       /\ SubSeq(post, 1, Len(pre)) = pre

\* C29 as stated: a turn that does not reset leaves the completed topics
\* as they were or appends one, and only a planeador turn whose extraction
\* succeeded appends one.
C29_OnlyProvideInfoAppends ==
    [][ (last'.op = "text" /\ last'.intent # saludo_nuevo) =>
            LET pre == Collected(user_sessions, last'.user).data.temas
                post == user_sessions'[last'.user].data.temas
            IN  /\ AppendedAtMostOne(pre, post)
                /\ post # pre =>
                      /\ last'.intent = planeador
                      /\ last'.ext = "datos" ]_vars

\* C29 amended: such a turn leaves the completed topics as they were or
\* appends one, and only a turn whose extraction succeeded appends one: a
\* planeador turn, or a continuar_planeador turn whose text is in neither
\* word list.
C29_TopicsAppendOnly ==
    [][ (last'.op = "text" /\ last'.intent # saludo_nuevo) =>
            LET pre == Collected(user_sessions, last'.user).data.temas
                post == user_sessions'[last'.user].data.temas
            IN  /\ AppendedAtMostOne(pre, post)
                /\ post # pre =>
                      /\ last'.ext = "datos"
                      /\ last'.branch = "tema_agregado"
                      /\ \/ last'.intent = planeador
                         \/ /\ last'.intent = continuar_planeador
                            /\ last'.text \notin TextosAfirmativos
                            /\ last'.text \notin TextosNegativos ]_vars

\* A second topic appended by a continuar_planeador turn, behind the first.
C29_Witness ==
    /\ last.op = "text"
    /\ last.intent = continuar_planeador
    /\ last.branch = "tema_agregado"
    /\ Len(user_sessions[last.user].data.temas) = 2
    /\ user_sessions[last.user].data.temas[1].tema = Tema1
    /\ user_sessions[last.user].data.temas[2].tema = Tema2

\* C30: a turn with an extraction that answers with the recap names at
\* least one missing field, and never ends with the sentence that the
\* information is complete.
C30_RecapNamesSomething ==
    (last.op = "text" /\ last.branch = "recap") =>
        /\ last.result.telegram_response.falta # <<>>
        /\ last.result.telegram_response.cierre = "falta"
        /\ ~is_current_tema_complete(user_sessions[last.user].current_tema)

\* Subject and grade are there and no field of the in-progress topic is
\* null, but its period is 0: the recap asks for the period.
C30_Witness ==
    /\ last.op = "text"
    /\ last.branch = "recap"
    /\ user_sessions[last.user].data.asignatura = Matematicas
    /\ user_sessions[last.user].data.grado = Grado8
    /\ user_sessions[last.user].current_tema
           = [tema |-> Tema1, periodo |-> JInt(0), fechas |-> Fechas1]
    /\ last.result.telegram_response.falta = <<"periodo">>

\* C31: when the transcription of a voice message fails, for want of a
\* gateway or because the call raised, process_message is not called, the
\* session store stays as it was and the user is sent the notice and the
\* failure text, and nothing else.
C31_FailedTranscriptionNotProcessed ==
    [][ (last'.op = "voice"
            /\ last'.transcription \in {"sin_ia", "excepcion"}) =>
            /\ last'.invocations = <<>>
            /\ user_sessions' = user_sessions
            /\ last'.sent
                   = <<Notice, [kind |-> "text",
                                body |-> [kind |-> "literal",
                                          text |-> last'.transcribed_text]]>>
       ]_vars


\* C32: whenever a handler answers that a topic was added, that topic is the
\* last of the accumulated topics of the session stored for its user, also
\* when a greeting of the same user put a new session there while the
\* handler awaited the extractor.
C32_ConfirmedTopicIsStored ==
    (last.op = "write" /\ last.branch = "tema_agregado") =>
        LET temas == user_sessions[last.user].data.temas
        IN  /\ temas # <<>>
            /\ temas[Len(temas)] = threads[last.update].sent[1].body.tema


\* C33: with the handlers of one user interleaved between statements, every
\* topic of the accumulated topics, in the stored session and in a session
\* a handler still holds, has topic, period and date range non-null.
C33_NoNullTopicCommitted ==
    /\ \A u \in DOMAIN user_sessions :
          \A k \in 1..Len(user_sessions[u].data.temas) :
              NonNullTopic(user_sessions[u].data.temas[k])
    /\ \A i \in DOMAIN threads :
          \A k \in 1..Len(threads[i].session.data.temas) :
              NonNullTopic(threads[i].session.data.temas[k])


\* C34: the result of a turn has completed true only if the turn was a
\* finish (continuar_planeador with a negative text) on a plan that was
\* ready, and it carries files only if completed is true; every other turn
\* has completed false and no files.
C34_CompletedOnlyOnReadyFinish ==
    last.op = "text" =>
        /\ last.result.completed => (FinishTurn /\ last.was_ready)
        /\ last.result.files_to_send # <<>> => last.result.completed
        /\ ~(FinishTurn /\ last.was_ready) =>
              /\ ~last.result.completed
              /\ last.result.files_to_send = <<>>
              /\ \A k \in 1..Len(last.sent) : last.sent[k].kind = "text"

C34_Witness ==
    /\ FinishTurn
    /\ last.was_ready
    /\ last.result.completed
    /\ Len(last.result.files_to_send) = 2
    /\ Len(last.sent) = 3


\* C35: with the handlers of two users interleaved, a step creates or changes
\* the session stored under u only if it is a step of a handler of an update
\* of user u; every other user's session, and its presence in the store, is
\* the same before and after the step.
C35_SessionsIsolated ==
    [][ \A u \in DOMAIN user_sessions \cup DOMAIN user_sessions' :
            (\/ u \notin DOMAIN user_sessions
             \/ u \notin DOMAIN user_sessions'
             \/ user_sessions'[u] # user_sessions[u]) =>
                /\ u \in DOMAIN user_sessions'
                /\ \E i \in DOMAIN threads :
                      /\ threads[i].user = u
                      /\ threads'[i].pc # threads[i].pc
       ]_vars

\* The handler of user 1 has committed a topic and finished while the
\* handler of user 2 awaits the classifier, its session holding its own
\* message and nothing else.
C35_Witness ==
    /\ DOMAIN user_sessions = {1, 2}
    /\ threads[1].pc = "terminado"
    /\ threads[2].pc = "clasificando"
    /\ threads[2].seq < threads[1].seq
    /\ Len(user_sessions[1].data.temas) = 1
    /\ user_sessions[2]
          = [NewSession EXCEPT !.conversation_history =
                                   <<[user |-> threads[2].text]>>]


\* C36: in every reachable state, a session whose accumulated topics are
\* non-empty has subject and grade non-null, and a turn that answers with
\* the confirmation and its question leaves such a session.
C36_TopicsOnlyAfterGeneral ==
    /\ \A u \in DOMAIN user_sessions :
          user_sessions[u].data.temas # <<>> =>
              /\ user_sessions[u].data.asignatura # None
              /\ user_sessions[u].data.grado # None
    /\ (last.op = "text" /\ last.branch = "tema_agregado") =>
          /\ user_sessions[last.user].data.asignatura # None
          /\ user_sessions[last.user].data.grado # None

=============================================================================
